---- MODULE Spec2Model ----
(***************************************************************************)
(* sp500-ohlc: the Stooq per-symbol pipeline (fetch_ohlc.py) and the       *)
(* yfinance batched pipeline (update_tickers.py).                          *)
(*                                                                         *)
(* Four specifications share this module:                                  *)
(*   Spec     runs of fetch_ohlc.main, step by step, with process death    *)
(*   SpecUT   runs of update_tickers.main                                  *)
(*   SpecLTD  fetch_ohlc.last_trading_day applied to bounded instants      *)
(*   SpecHdr  fetch_ohlc.normalize_headers + validate_df applied to        *)
(*            bounded tabular payloads                                     *)
(*                                                                         *)
(* Conventions.  A text string whose characters matter (a column name) is  *)
(* a tuple of one-character strings.  A ticker symbol is a natural number: *)
(* its rank in the lexicographic order of the upper-cased symbols, so that *)
(* < on symbols is the order sort_values uses on the Symbol column.  A     *)
(* calendar date is its proleptic Gregorian ordinal (date.toordinal()),    *)
(* ordinal 1 being a Monday; NaT is 0.                                     *)
(***************************************************************************)
EXTENDS Integers, Sequences, FiniteSets, TLC

(***************************************************************************)
(* Bounds of the model                                                     *)
(***************************************************************************)
MaxTickers == 2      \* longest ticker list fetch_ohlc.py starts from
MaxUTTickers == 3    \* longest ticker list update_tickers.py starts from
MaxRuns == 1         \* runs of fetch_ohlc.py in one behaviour
MaxUTRuns == 2       \* runs of update_tickers.py in one behaviour
MinDay == 8          \* earliest ordinal of "now" in SpecLTD
MaxDay == 64         \* latest ordinal of "now" in SpecLTD
BATCH == 2           \* update_tickers.py:58 has 100; scaled so that a run has several batches

\* the symbols a ticker list of either script is drawn from
Symbols == 1..MaxTickers
UTSymbols == 1..MaxUTTickers

Range(s) == {s[i] : i \in DOMAIN s}

NoFile == [file |-> "absent"]
Truncated == [file |-> "truncated"]      \* opened with "w", nothing flushed yet: zero bytes
Complete(d) == [file |-> "complete", data |-> d]
IsComplete(f) == f.file = "complete"

(***************************************************************************)
(* Characters and column names                                             *)
(***************************************************************************)
UpperChars ==
  <<"A","B","C","D","E","F","G","H","I","J","K","L","M",
    "N","O","P","Q","R","S","T","U","V","W","X","Y","Z">>
LowerChars ==
  <<"a","b","c","d","e","f","g","h","i","j","k","l","m",
    "n","o","p","q","r","s","t","u","v","w","x","y","z">>

\* str.lower() on one character
LowerChar(c) ==
  IF \E i \in 1..26 : UpperChars[i] = c
  THEN LowerChars[CHOOSE i \in 1..26 : UpperChars[i] = c]
  ELSE c

\* the characters \s matches
IsSpace(c) == c \in {" ", "\t", "\n"}

\* re.sub(r"\s+", "", str(c)).lower()
Lowered(name) ==
  LET kept == SelectSeq(name, LAMBDA c : ~IsSpace(c))
  IN  [i \in 1..Len(kept) |-> LowerChar(kept[i])]

cDate == <<"D","a","t","e">>
cOpen == <<"O","p","e","n">>
cHigh == <<"H","i","g","h">>
cLow == <<"L","o","w">>
cClose == <<"C","l","o","s","e">>
cVolume == <<"V","o","l","u","m","e">>

\* fetch_ohlc.REQUIRED with one column dropped from the gate (mutation of REQUIRED)
REQUIRED_DateCloseOnly == <<cDate, cClose>>

REQUIRED == <<cDate, cOpen, cHigh, cLow, cClose, cVolume>>

\* the synonym table of normalize_headers, in dict order
mapping ==
  << << <<"d","a","t","e">>, cDate >>,
     << <<"t","i","m","e","s","t","a","m","p">>, cDate >>,
     << <<"o","p","e","n">>, cOpen >>,
     << <<"h","i","g","h">>, cHigh >>,
     << <<"l","o","w">>, cLow >>,
     << <<"c","l","o","s","e">>, cClose >>,
     << <<"a","d","j","c","l","o","s","e">>, cClose >>,
     << <<"a","d","j","_","c","l","o","s","e">>, cClose >>,
     << <<"v","o","l","u","m","e">>, cVolume >>,
     << <<"v","o","l">>, cVolume >> >>

\* df.rename(columns={k: v}) on the column index
Rename(columns, k, v) ==
  [i \in 1..Len(columns) |-> IF columns[i] = k THEN v ELSE columns[i]]

RECURSIVE ApplyMapping(_, _)
ApplyMapping(columns, j) ==
  IF j > Len(mapping) THEN columns
  ELSE LET k == mapping[j][1]
           v == mapping[j][2]
       IN  ApplyMapping(IF k \in Range(columns) THEN Rename(columns, k, v) ELSE columns,
                        j + 1)

\* normalize_headers on the column index of a frame
normalize_headers(columns) ==
  ApplyMapping([i \in 1..Len(columns) |-> Lowered(columns[i])], 1)

\* A frame is [columns, rows]; validate_df returns (ok, why)
NoMissing == << >>
validate_df(df) ==
  IF Len(df.rows) = 0 \/ Len(df.columns) = 0
  THEN [ok |-> FALSE, why |-> "empty dataframe", missing |-> NoMissing]
  ELSE LET missing == SelectSeq(REQUIRED, LAMBDA c : c \notin Range(df.columns))
       IN  IF missing # << >>
           THEN [ok |-> FALSE, why |-> "missing columns", missing |-> missing]
           ELSE [ok |-> TRUE, why |-> "", missing |-> NoMissing]

(***************************************************************************)
(* last_trading_day                                                        *)
(***************************************************************************)
\* date.weekday(): Monday is 0, Sunday is 6
weekday(d) == (d + 6) % 7

\* the loop test with Saturday let through (mutation of IsWeekend)
IsWeekend_SundayOnly(d) == weekday(d) > 5

\* while d.weekday() >= 5
IsWeekend(d) == weekday(d) >= 5

RECURSIVE SkipWeekend(_)
SkipWeekend(d) == IF IsWeekend(d) THEN SkipWeekend(d - 1) ELSE d

\* now is [day, secs]; the result is midnight of the day found
last_trading_day(now) == [day |-> SkipWeekend(now.day - 1), secs |-> 0]

(***************************************************************************)
(* State                                                                   *)
(***************************************************************************)
VARIABLES
  \* files of the working tree
  tickersTxt,      \* tickers.txt
  badTickers,      \* build/bad_tickers.txt
  rawDir,          \* data/raw/<sym>.csv, by symbol
  latestCsv,       \* data/latest.csv
  yesterdayJson,   \* data/yesterday.json
  \* fetch_ohlc.main
  pc,              \* position of the process; "idle" when no process runs
  tickers,         \* main's tickers
  i,               \* index of sym in tickers (the for loop)
  frames,          \* main's frames
  processed,       \* main's processed
  df,              \* main's df: unbound until the first fetch_stooq returns
  exitCode,        \* exit status of the last process
  runs,            \* processes started so far
  badBefore,       \* history: entries bad_tickers.txt held when the current run started
  \* fetch_stooq
  ci,              \* index of c in candidates
  reqs,            \* the GET requests this call has issued, with their responses
  lastErr          \* last_err

diskvars == <<tickersTxt, badTickers, rawDir, latestCsv, yesterdayJson>>
mainvars == <<pc, tickers, i, frames, processed, df, exitCode, runs, badBefore>>
stooqvars == <<ci, reqs, lastErr>>
mainvars_but_pc == <<tickers, i, frames, processed, df, exitCode, runs, badBefore>>
fvars == <<diskvars, mainvars, stooqvars>>

(***************************************************************************)
(* Values of the Stooq pipeline                                            *)
(***************************************************************************)
NaT == 0
NoErr == [why |-> "", cand |-> 0, missing |-> NoMissing]
Unbound == [bound |-> FALSE]
NoPreview == << >>

\* candidates = [sym.lower(), f"{sym.lower()}.us"], by index
NumCandidates == 2

\* Raw CSV tables a candidate URL may answer with (before normalize_headers):
\* a full table under variant column names with rows out of order and one
\* unparseable date, a table without a volume column, and a table whose only
\* date does not parse
hdrVariant ==
  << <<" ","D","A","T","E">>, <<"o","p","e","n">>, <<"H","i","g","h">>, <<"L","O","W">>,
     <<"A","d","j"," ","C","l","o","s","e">>, <<"V","o","l">> >>
hdrNoVolume == <<cDate, cOpen, cHigh, cLow, cClose>>
hdrCanonical == <<cDate, cOpen, cHigh, cLow, cClose, cVolume>>

CsvBodies ==
  { [columns |-> hdrVariant,
     rows |-> << [Date |-> 5, Close |-> 2], [Date |-> NaT, Close |-> 1], [Date |-> 4, Close |-> 1] >>],
    [columns |-> hdrNoVolume, rows |-> << [Date |-> 5, Close |-> 1] >>],
    [columns |-> hdrCanonical, rows |-> << [Date |-> NaT, Close |-> 1] >>] }

NoBody == [columns |-> << >>, rows |-> << >>]

\* what one GET may produce: a status other than 200 ("http"), a text that is
\* blank or starts like an HTML page ("html"), a CSV text, or an exception
\* raised by s.get (connection error, timeout)
Responses ==
  { [kind |-> kd, body |-> NoBody] : kd \in {"http", "html", "timeout"} }
  \cup { [kind |-> "csv", body |-> b] : b \in CsvBodies }

\* the days datetime.now() may fall on: a Friday and the Monday after
NowDays == {5, 8}

(***************************************************************************)
(* Sorting                                                                 *)
(***************************************************************************)
\* insert r behind the first n rows
InsertAt(sorted, r, n) ==
  SubSeq(sorted, 1, n) \o <<r>> \o SubSeq(sorted, n + 1, Len(sorted))


RECURSIVE Concat(_)
Concat(ss) == IF ss = << >> THEN << >> ELSE Head(ss) \o Concat(Tail(ss))

\* df.dropna(subset=["Date"]).sort_values("Date")
DateLe(a, b) == a.Date <= b.Date
RECURSIVE SortByDate(_)
SortByDate(s) ==
  IF s = << >> THEN << >>
  ELSE LET sorted == SortByDate(SubSeq(s, 1, Len(s) - 1))
           r == s[Len(s)]
       IN  InsertAt(sorted, r, Cardinality({n \in 1..Len(sorted) : DateLe(sorted[n], r)}))
ParseDates(rows) == SortByDate(SelectSeq(rows, LAMBDA r : r.Date # NaT))

\* all_df.sort_values(["Date", "Symbol"])
DateSymbolLe(a, b) == a.Date < b.Date \/ (a.Date = b.Date /\ a.Symbol <= b.Symbol)
RECURSIVE SortByDateSymbol(_)
SortByDateSymbol(s) ==
  IF s = << >> THEN << >>
  ELSE LET sorted == SortByDateSymbol(SubSeq(s, 1, Len(s) - 1))
           r == s[Len(s)]
       IN  InsertAt(sorted, r, Cardinality({n \in 1..Len(sorted) : DateSymbolLe(sorted[n], r)}))

(***************************************************************************)
(* fetch_stooq                                                             *)
(***************************************************************************)
Fail(err) == [ok |-> FALSE, err |-> err, rows |-> << >>]

\* the body of the for loop for candidate c, given what the GET produced
TryCandidate(c, resp) ==
  IF resp.kind = "timeout"
  THEN Fail([why |-> "timeout", cand |-> c, missing |-> NoMissing])
  ELSE IF resp.kind = "http"
  THEN Fail([why |-> "http", cand |-> c, missing |-> NoMissing])
  ELSE IF resp.kind = "html"
  THEN Fail([why |-> "non-CSV response", cand |-> c, missing |-> NoMissing])
  ELSE LET cols == normalize_headers(resp.body.columns)
           rows == IF cDate \in Range(cols) THEN ParseDates(resp.body.rows)
                   ELSE resp.body.rows
           v == validate_df([columns |-> cols, rows |-> rows])
       IN  IF v.ok THEN [ok |-> TRUE, err |-> NoErr, rows |-> rows]
           ELSE Fail([why |-> v.why, cand |-> 0, missing |-> v.missing])

Attempts(log, c) == Cardinality({k \in 1..Len(log) : log[k].cand = c})

\* a failed candidate asked once more before the loop moves on (mutation of AfterFailure)
AfterFailure_RetryOnce(c, log) == IF Attempts(log, c) < 2 THEN c ELSE c + 1

\* continue / fall out of the except clause: the for loop takes the next candidate
AfterFailure(c, log) == c + 1

\* one iteration of the for loop of fetch_stooq: the GET and everything up to
\* return df, continue, or (after the last candidate) raise RuntimeError
Request ==
  /\ pc = "fetch"
  /\ ci <= NumCandidates
  /\ \E resp \in Responses :
       LET out == TryCandidate(ci, resp)
           log == Append(reqs, [cand |-> ci, resp |-> resp])
           nxt == AfterFailure(ci, log)
       IN  /\ reqs' = log
           /\ IF out.ok
              THEN /\ df' = [bound |-> TRUE, sym |-> tickers[i], rows |-> out.rows]
                   /\ pc' = "store"
                   /\ UNCHANGED <<ci, lastErr>>
              ELSE /\ lastErr' = out.err
                   /\ ci' = nxt
                   /\ pc' = IF nxt > NumCandidates THEN "except" ELSE "fetch"
                   /\ df' = df
  /\ UNCHANGED <<diskvars, tickers, i, frames, processed, exitCode, runs, badBefore>>

(***************************************************************************)
(* fetch_ohlc.main                                                         *)
(***************************************************************************)
\* read_tickers on the text of tickers.txt: the non-blank lines, stripped and
\* upper-cased (symbols are ranks of upper-cased symbols already)
read_tickers(f) == IF IsComplete(f) THEN f.data ELSE << >>

\* the bad list left in place at the start of a run (mutation of ResetBad)
ResetBad_Keep(f) == f

\* if os.path.exists(BAD_TICKERS): os.remove(BAD_TICKERS)
ResetBad(f) == NoFile

\* write_bad: open(BAD_TICKERS, "a") and one write of the entry
write_bad(f, sym, reason, preview) ==
  LET entry == [sym |-> sym, reason |-> reason, preview |-> preview]
  IN  IF IsComplete(f) THEN Complete(Append(f.data, entry)) ELSE Complete(<<entry>>)

\* df.head(3).to_string(index=False) of whatever df is bound to
Preview(d) ==
  IF d.bound
  THEN <<[sym |-> d.sym, rows |-> SubSeq(d.rows, 1, IF Len(d.rows) < 3 THEN Len(d.rows) ELSE 3)]>>
  ELSE NoPreview

\* ensure_dirs .. "reset bad list": the head of main up to the for loop
MainStart ==
  /\ pc = "idle"
  /\ runs < MaxRuns
  /\ runs' = runs + 1
  /\ badBefore' = IF IsComplete(badTickers) THEN Len(badTickers.data) ELSE 0
  /\ IF tickersTxt = NoFile
     THEN /\ exitCode' = "exit 1"
          /\ UNCHANGED <<diskvars, pc, tickers, i, frames, processed, df, stooqvars>>
     ELSE /\ tickers' = read_tickers(tickersTxt)
          /\ frames' = << >>
          /\ processed' = << >>
          /\ df' = Unbound
          /\ badTickers' = ResetBad(badTickers)
          /\ i' = 1
          /\ pc' = "loop"
          /\ exitCode' = "running"
          /\ UNCHANGED <<tickersTxt, rawDir, latestCsv, yesterdayJson, stooqvars>>

\* for sym in tickers: try: df = fetch_stooq(sym, s)  -- entry of fetch_stooq
LoopNext ==
  /\ pc = "loop"
  /\ i <= Len(tickers)
  /\ ci' = 1
  /\ reqs' = << >>
  /\ lastErr' = NoErr
  /\ pc' = "fetch"
  /\ UNCHANGED <<diskvars, tickers, i, frames, processed, df, exitCode, runs, badBefore>>

\* the frame of a fetch_stooq call is gone once the call has returned or raised
StooqGone ==
  /\ ci' = 1
  /\ reqs' = << >>
  /\ lastErr' = NoErr

\* the memory of the process is gone once it has exited; tickers, i and
\* processed stay as the record of what the run went through
MemoryGone ==
  /\ frames' = << >>
  /\ df' = Unbound
  /\ StooqGone

\* df = df[REQUIRED].copy(); df.to_csv(raw_path) opens the raw file for writing
StoreRawOpen ==
  /\ pc = "store"
  /\ rawDir' = [rawDir EXCEPT ![tickers[i]] = Truncated]
  /\ pc' = "store_w"
  /\ StooqGone
  /\ UNCHANGED <<tickersTxt, badTickers, latestCsv, yesterdayJson,
                 tickers, i, frames, processed, df, exitCode, runs, badBefore>>

\* to_csv completes; df["Symbol"] = sym; frames.append(df); processed.append(sym)
StoreRawClose ==
  /\ pc = "store_w"
  /\ rawDir' = [rawDir EXCEPT ![tickers[i]] = Complete(df.rows)]
  /\ frames' = Append(frames, [sym |-> tickers[i], rows |-> df.rows])
  /\ processed' = Append(processed, tickers[i])
  /\ i' = i + 1
  /\ pc' = "loop"
  /\ UNCHANGED <<tickersTxt, badTickers, latestCsv, yesterdayJson,
                 tickers, df, exitCode, runs, badBefore, stooqvars>>

\* except Exception as e: preview from the df of an earlier iteration, write_bad, continue
WriteBad ==
  /\ pc = "except"
  /\ LET e == IF lastErr = NoErr
              THEN [why |-> "unknown stooq error", cand |-> 0, missing |-> NoMissing]
              ELSE lastErr
     IN  badTickers' = write_bad(badTickers, tickers[i], e, Preview(df))
  /\ i' = i + 1
  /\ pc' = "loop"
  /\ StooqGone
  /\ UNCHANGED <<tickersTxt, rawDir, latestCsv, yesterdayJson,
                 tickers, frames, processed, df, exitCode, runs, badBefore>>

\* if not frames: sys.exit(1)
ExitNoFrames ==
  /\ pc = "loop"
  /\ i > Len(tickers)
  /\ frames = << >>
  /\ pc' = "idle"
  /\ exitCode' = "exit 1"
  /\ MemoryGone
  /\ UNCHANGED <<diskvars, tickers, i, processed, runs, badBefore>>

\* pd.concat(frames).sort_values(["Date", "Symbol"])
all_df ==
  SortByDateSymbol(Concat([k \in 1..Len(frames) |->
                    [r \in 1..Len(frames[k].rows) |->
                       [Date |-> frames[k].rows[r].Date,
                        Symbol |-> frames[k].sym,
                        Close |-> frames[k].rows[r].Close]]]))

\* all_df.to_csv(OUT_LATEST) opens the file for writing
LatestOpen ==
  /\ pc = "loop"
  /\ i > Len(tickers)
  /\ frames # << >>
  /\ latestCsv' = Truncated
  /\ pc' = "latest_w"
  /\ UNCHANGED <<tickersTxt, badTickers, rawDir, yesterdayJson, mainvars_but_pc, stooqvars>>

\* to_csv(OUT_LATEST) completes
LatestClose ==
  /\ pc = "latest_w"
  /\ latestCsv' = Complete(all_df)
  /\ pc' = "yday"
  /\ UNCHANGED <<tickersTxt, badTickers, rawDir, yesterdayJson, mainvars_but_pc, stooqvars>>

\* the records of yesterday.json: the rows of all_df dated last_trading_day(now)
records(now) ==
  LET yday == last_trading_day(now)
      ydf == SelectSeq(all_df, LAMBDA r : r.Date = yday.day)
  IN  [k \in 1..Len(ydf) |->
         [Symbol |-> ydf[k].Symbol, Date |-> ydf[k].Date, Close |-> ydf[k].Close]]

\* open(OUT_YDAY_JSON, "w")
YdayOpen ==
  /\ pc = "yday"
  /\ yesterdayJson' = Truncated
  /\ pc' = "yday_w"
  /\ UNCHANGED <<tickersTxt, badTickers, rawDir, latestCsv, mainvars_but_pc, stooqvars>>

\* json.dump(records, f) and the close of the with block
YdayClose ==
  /\ pc = "yday_w"
  /\ \E day \in NowDays : yesterdayJson' = Complete(records([day |-> day, secs |-> 1]))
  /\ pc' = "tickers"
  /\ UNCHANGED <<tickersTxt, badTickers, rawDir, latestCsv, mainvars_but_pc, stooqvars>>

\* open(TICKERS_TXT, "w")
TickersOpen ==
  /\ pc = "tickers"
  /\ tickersTxt' = Truncated
  /\ pc' = "tickers_w"
  /\ UNCHANGED <<badTickers, rawDir, latestCsv, yesterdayJson, mainvars_but_pc, stooqvars>>

\* the whole input list written back (mutation of RewrittenTickers)
RewrittenTickers_All(tks, proc) == tks

\* the lines main writes to tickers.txt: "\n".join(processed)
RewrittenTickers(tks, proc) == proc

\* f.write("\n".join(processed) + "\n"); the final print; exit status 0
TickersClose ==
  /\ pc = "tickers_w"
  /\ tickersTxt' = Complete(RewrittenTickers(tickers, processed))
  /\ pc' = "idle"
  /\ exitCode' = "exit 0"
  /\ MemoryGone
  /\ UNCHANGED <<badTickers, rawDir, latestCsv, yesterdayJson,
                 tickers, i, processed, runs, badBefore>>

\* the process dies where it stands (killed, power loss, job timeout)
Crash ==
  /\ pc # "idle"
  /\ pc' = "idle"
  /\ exitCode' = "killed"
  /\ MemoryGone
  /\ UNCHANGED <<diskvars, tickers, i, processed, runs, badBefore>>

\* duplicate-free ticker lists (the symbol-universe provider hands over a
\* deduplicated list)
TickerLists(universe, maxLen) ==
  {s \in UNION {[1..n -> universe] : n \in 0..maxLen} :
     \A a, b \in DOMAIN s : a # b => s[a] # s[b]}

TickerFiles(universe, maxLen) ==
  {NoFile} \cup {Complete(s) : s \in TickerLists(universe, maxLen)}

\* bad_tickers.txt as an earlier run may have left it
StaleEntry ==
  [sym |-> 1, reason |-> [why |-> "http", cand |-> NumCandidates, missing |-> NoMissing],
   preview |-> NoPreview]
BadFiles == {NoFile, Complete(<<StaleEntry>>)}

FetchIdle ==
  /\ rawDir = [s \in Symbols |-> NoFile]
  /\ latestCsv = NoFile
  /\ yesterdayJson = NoFile
  /\ pc = "idle"
  /\ tickers = << >>
  /\ i = 1
  /\ frames = << >>
  /\ processed = << >>
  /\ df = Unbound
  /\ exitCode = "none"
  /\ runs = 0
  /\ badBefore = 0
  /\ ci = 1
  /\ reqs = << >>
  /\ lastErr = NoErr

(***************************************************************************)
(* update_tickers.py                                                       *)
(***************************************************************************)
VARIABLES
  outJson,         \* data/latest_sp500.json
  metaJson,        \* data/ticker_meta.json
  utPc,            \* position of the update_tickers process; "idle" when none runs
  utTickers,       \* main's tickers
  utNames,         \* main's names
  bi,              \* first index of the current batch in tickers (1-based)
  k,               \* index of sym in batch
  utDf,            \* what yf.download returned for the current batch
  out,             \* main's out
  utExit,          \* exit status of the last process
  utRuns,          \* processes started so far
  prevOut          \* history: latest_sp500.json as the current run found it

uvars == <<outJson, metaJson, utPc, utTickers, utNames, bi, k, utDf, out, utExit, utRuns, prevOut>>

NaN == -1
None == "None"

\* the last row of a symbol's 5-day sub-frame; prices in thousandths
LastRows ==
  { [Date |-> 5, Close |-> 150004, Volume |-> 10],
    [Date |-> 4, Close |-> NaN, Volume |-> NaN] }

\* df[sym] of a multi-download: no such column group (KeyError), all rows NaN
\* (empty after dropna), or rows of which iloc[-1] is the last
SubFrames ==
  { [sub |-> "keyerror", row |-> None], [sub |-> "empty", row |-> None] }
  \cup { [sub |-> "rows", row |-> r] : r \in LastRows }

\* pack_row.f: None for NaN, else round(float(x), 2), in hundredths
f(x) == IF x = NaN THEN None ELSE (x + 5) \div 10

\* pack_row.i: None for NaN, else int(x)
int(x) == IF x = NaN THEN None ELSE x

pack_row(sym, row) ==
  [symbol |-> sym, name |-> None, close |-> f(row.Close), volume |-> int(row.Volume),
   date |-> row.Date]

\* load_tickers: the non-blank lines of tickers.txt, stripped
load_tickers(file) == IF IsComplete(file) THEN file.data ELSE << >>

\* load_names: symbol -> name from ticker_meta.json, {} when absent or unreadable
load_names(file) ==
  IF IsComplete(file) THEN file.data ELSE [s \in UTSymbols |-> None]

\* tickers[bi:bi+BATCH]
Batch(ts, b) == SubSeq(ts, b, IF b + BATCH - 1 < Len(ts) THEN b + BATCH - 1 ELSE Len(ts))

\* "merge names": r["name"] = names.get(r["symbol"]) where r has no name
MergeNames(rows, names) ==
  [n \in 1..Len(rows) |->
     IF rows[n].name = None THEN [rows[n] EXCEPT !.name = names[rows[n].symbol]]
     ELSE rows[n]]

\* tickers = load_tickers(); names = load_names(); out = []
UTStart ==
  /\ utPc = "idle"
  /\ utRuns < MaxUTRuns
  /\ utRuns' = utRuns + 1
  /\ prevOut' = outJson
  /\ IF tickersTxt = NoFile
     THEN \* TICKERS_TXT.read_text() raises FileNotFoundError
          /\ utExit' = "exit 1"
          /\ UNCHANGED <<outJson, metaJson, utPc, utTickers, utNames, bi, k, utDf, out>>
     ELSE /\ utTickers' = load_tickers(tickersTxt)
          /\ utNames' = load_names(metaJson)
          /\ out' = << >>
          /\ bi' = 1
          /\ utPc' = "batch"
          /\ utExit' = "running"
          /\ UNCHANGED <<outJson, metaJson, k, utDf>>

\* df = yf.download(batch) raises: the exception leaves main, nothing is written
UTDownloadRaises ==
  /\ utPc = "batch"
  /\ bi <= Len(utTickers)
  /\ utPc' = "idle"
  /\ utExit' = "exit 1"
  /\ UNCHANGED <<outJson, metaJson, utTickers, utNames, bi, k, utDf, out, utRuns, prevOut>>

\* df = yf.download(batch) returns a frame with MultiIndex columns
UTDownloadMulti ==
  /\ utPc = "batch"
  /\ bi <= Len(utTickers)
  /\ \E subs \in [Range(Batch(utTickers, bi)) -> SubFrames] :
       utDf' = [multi |-> TRUE, subs |-> subs]
  /\ k' = 1
  /\ utPc' = "syms"
  /\ UNCHANGED <<outJson, metaJson, utTickers, utNames, bi, out, utExit, utRuns, prevOut>>

\* df = yf.download(batch) returns a single-ticker frame: the else branch
\* continues with the next batch whether or not the frame is empty
UTDownloadSingle ==
  /\ utPc = "batch"
  /\ bi <= Len(utTickers)
  /\ bi' = bi + BATCH
  /\ UNCHANGED <<outJson, metaJson, utPc, utTickers, utNames, k, utDf, out, utExit, utRuns, prevOut>>

\* one iteration of "for sym in batch"; after the last one the next batch
UTSym ==
  /\ utPc = "syms"
  /\ LET batch == Batch(utTickers, bi)
         sym == batch[k]
         sub == utDf.subs[sym]
     IN  /\ out' = IF sub.sub = "rows" THEN Append(out, pack_row(sym, sub.row)) ELSE out
         /\ IF k < Len(batch)
            THEN k' = k + 1 /\ UNCHANGED <<bi, utPc>>
            ELSE k' = k /\ bi' = bi + BATCH /\ utPc' = "batch"
  /\ UNCHANGED <<outJson, metaJson, utTickers, utNames, utDf, utExit, utRuns, prevOut>>

\* merge names; OUT_JSON.write_text opens the file for writing
UTWriteOpen ==
  /\ utPc = "batch"
  /\ bi > Len(utTickers)
  /\ out' = MergeNames(out, utNames)
  /\ outJson' = Truncated
  /\ utPc' = "out_w"
  /\ UNCHANGED <<metaJson, utTickers, utNames, bi, k, utDf, utExit, utRuns, prevOut>>

\* write_text completes; the final print; exit status 0
UTWriteClose ==
  /\ utPc = "out_w"
  /\ outJson' = Complete(out)
  /\ utPc' = "idle"
  /\ utExit' = "exit 0"
  /\ UNCHANGED <<metaJson, utTickers, utNames, bi, k, utDf, out, utRuns, prevOut>>

\* the process dies where it stands
UTCrash ==
  /\ utPc # "idle"
  /\ utPc' = "idle"
  /\ utExit' = "killed"
  /\ UNCHANGED <<outJson, metaJson, utTickers, utNames, bi, k, utDf, out, utRuns, prevOut>>

NoDf == [multi |-> FALSE, subs |-> << >>]

UTIdle ==
  /\ outJson = NoFile
  /\ utPc = "idle"
  /\ utTickers = << >>
  /\ utNames = [s \in UTSymbols |-> None]
  /\ bi = 1
  /\ k = 1
  /\ utDf = NoDf
  /\ out = << >>
  /\ utExit = "none"
  /\ utRuns = 0
  /\ prevOut = NoFile

\* ticker_meta.json: absent, or naming the first symbol only
MetaFiles ==
  {NoFile, Complete([s \in UTSymbols |-> IF s = 1 THEN "name" ELSE None])}

(***************************************************************************)
(* Pure functions under test                                               *)
(***************************************************************************)
VARIABLES
  now,             \* the instant handed to last_trading_day
  ltdPc,           \* "call" before, "returned" after
  ltdResult,       \* the datetime returned
  payload,         \* a parsed CSV table: [columns, rows]
  hdrPc,           \* "parsed", "normalized", "validated"
  hdrDf,           \* the frame after normalize_headers
  verdict          \* what validate_df returned

lvars == <<now, ltdPc, ltdResult>>
hvars == <<payload, hdrPc, hdrDf, verdict>>

SecsOfDay == {0, 43200, 86399}
NoInstant == [day |-> 0, secs |-> 0]

LTDIdle ==
  /\ now = NoInstant
  /\ ltdPc = "off"
  /\ ltdResult = NoInstant

InitLTD ==
  /\ now \in [day : MinDay..MaxDay, secs : SecsOfDay]
  /\ ltdPc = "call"
  /\ ltdResult = NoInstant

\* yday = last_trading_day(now)
LtdCall ==
  /\ ltdPc = "call"
  /\ ltdResult' = last_trading_day(now)
  /\ ltdPc' = "returned"
  /\ UNCHANGED now

\* column names a provider may send, in file order
HeaderPool ==
  << cDate,
     <<"T","i","m","e","S","t","a","m","p">>,
     <<"O","P","E","N">>,
     <<"h","i","g","h">>,
     <<" ","L","o","w"," ">>,
     cClose,
     <<"A","d","j"," ","C","l","o","s","e">>,
     <<"a","d","j","_","c","l","o","s","e">>,
     cVolume,
     <<"V","O","L">>,
     <<"P","r","i","c","e">> >>

\* the columns of the pool at the chosen positions, in pool order
RECURSIVE PickColumns(_, _)
PickColumns(chosen, n) ==
  IF n = 0 THEN << >>
  ELSE PickColumns(chosen, n - 1) \o (IF n \in chosen THEN <<HeaderPool[n]>> ELSE << >>)

Payloads ==
  { [columns |-> PickColumns(chosen, Len(HeaderPool)), rows |-> rows] :
      chosen \in (SUBSET (1..Len(HeaderPool))) \ {{}},
      rows \in { << >>, << [Date |-> 5, Close |-> 1] >> } }

NoVerdict == [ok |-> FALSE, why |-> "", missing |-> NoMissing]

HdrIdle ==
  /\ payload = NoBody
  /\ hdrPc = "off"
  /\ hdrDf = NoBody
  /\ verdict = NoVerdict

InitHdr ==
  /\ payload \in Payloads
  /\ hdrPc = "parsed"
  /\ hdrDf = NoBody
  /\ verdict = NoVerdict

\* df = normalize_headers(df)
HdrNormalize ==
  /\ hdrPc = "parsed"
  /\ hdrDf' = [columns |-> normalize_headers(payload.columns), rows |-> payload.rows]
  /\ hdrPc' = "normalized"
  /\ UNCHANGED <<payload, verdict>>

\* ok, why = validate_df(df)
HdrValidate ==
  /\ hdrPc = "normalized"
  /\ verdict' = validate_df(hdrDf)
  /\ hdrPc' = "validated"
  /\ UNCHANGED <<payload, hdrDf>>

(***************************************************************************)
(* Specifications                                                          *)
(***************************************************************************)
vars == <<fvars, uvars, lvars, hvars>>

\* runs of fetch_ohlc.py
Init ==
  /\ tickersTxt \in TickerFiles(Symbols, MaxTickers)
  /\ badTickers \in BadFiles
  /\ FetchIdle
  /\ UTIdle
  /\ metaJson = NoFile
  /\ LTDIdle
  /\ HdrIdle

Next ==
  \/ MainStart /\ UNCHANGED <<uvars, lvars, hvars>>
  \/ LoopNext /\ UNCHANGED <<uvars, lvars, hvars>>
  \/ Request /\ UNCHANGED <<uvars, lvars, hvars>>
  \/ StoreRawOpen /\ UNCHANGED <<uvars, lvars, hvars>>
  \/ StoreRawClose /\ UNCHANGED <<uvars, lvars, hvars>>
  \/ WriteBad /\ UNCHANGED <<uvars, lvars, hvars>>
  \/ ExitNoFrames /\ UNCHANGED <<uvars, lvars, hvars>>
  \/ LatestOpen /\ UNCHANGED <<uvars, lvars, hvars>>
  \/ LatestClose /\ UNCHANGED <<uvars, lvars, hvars>>
  \/ YdayOpen /\ UNCHANGED <<uvars, lvars, hvars>>
  \/ YdayClose /\ UNCHANGED <<uvars, lvars, hvars>>
  \/ TickersOpen /\ UNCHANGED <<uvars, lvars, hvars>>
  \/ TickersClose /\ UNCHANGED <<uvars, lvars, hvars>>
  \/ Crash /\ UNCHANGED <<uvars, lvars, hvars>>

Spec == Init /\ [][Next]_vars

\* runs of update_tickers.py
InitUT ==
  /\ tickersTxt \in TickerFiles(UTSymbols, MaxUTTickers)
  /\ badTickers = NoFile
  /\ FetchIdle
  /\ UTIdle
  /\ metaJson \in MetaFiles
  /\ LTDIdle
  /\ HdrIdle

NextUT ==
  \/ UTStart /\ UNCHANGED <<fvars, lvars, hvars>>
  \/ UTDownloadRaises /\ UNCHANGED <<fvars, lvars, hvars>>
  \/ UTDownloadMulti /\ UNCHANGED <<fvars, lvars, hvars>>
  \/ UTDownloadSingle /\ UNCHANGED <<fvars, lvars, hvars>>
  \/ UTSym /\ UNCHANGED <<fvars, lvars, hvars>>
  \/ UTWriteOpen /\ UNCHANGED <<fvars, lvars, hvars>>
  \/ UTWriteClose /\ UNCHANGED <<fvars, lvars, hvars>>
  \/ UTCrash /\ UNCHANGED <<fvars, lvars, hvars>>

SpecUT == InitUT /\ [][NextUT]_vars

\* last_trading_day applied to every instant of the window
InitLTDSpec ==
  /\ tickersTxt = NoFile
  /\ badTickers = NoFile
  /\ FetchIdle
  /\ UTIdle
  /\ metaJson = NoFile
  /\ InitLTD
  /\ HdrIdle

NextLTD == LtdCall /\ UNCHANGED <<fvars, uvars, hvars>>

SpecLTD == InitLTDSpec /\ [][NextLTD]_vars

\* normalize_headers and validate_df applied to every payload
InitHdrSpec ==
  /\ tickersTxt = NoFile
  /\ badTickers = NoFile
  /\ FetchIdle
  /\ UTIdle
  /\ metaJson = NoFile
  /\ LTDIdle
  /\ InitHdr

NextHdr ==
  \/ HdrNormalize /\ UNCHANGED <<fvars, uvars, lvars>>
  \/ HdrValidate /\ UNCHANGED <<fvars, uvars, lvars>>

SpecHdr == InitHdrSpec /\ [][NextHdr]_vars

(***************************************************************************)
(* Properties                                                              *)
(***************************************************************************)
Syms(rows) == {rows[n].symbol : n \in DOMAIN rows}
InSnapshot(s) == IsComplete(outJson) /\ s \in Syms(outJson.data)
InBadLog(s) == IsComplete(badTickers) /\ \E n \in DOMAIN badTickers.data : badTickers.data[n].sym = s
UTFinished == utPc = "idle" /\ utExit \in {"exit 0", "exit 1"}

\* C1: when a run of update_tickers.main has finished, every symbol of the
\* input ticker list is in exactly one of the written snapshot and the
\* bad-symbol log.
C1_Completeness ==
  (utPc = "idle" /\ utExit = "exit 0") =>
    \A s \in Range(utTickers) : InSnapshot(s) # InBadLog(s)

\* C2: a symbol that the previous run's snapshot holds and that this run did
\* not fetch is still in the new snapshot, with the date and values it had.
C2_CarryForward ==
  (utPc = "idle" /\ utExit = "exit 0" /\ IsComplete(prevOut)) =>
    \A n \in DOMAIN prevOut.data :
      LET old == prevOut.data[n]
      IN  (old.symbol \in Range(utTickers) /\ old.symbol \notin Syms(out)) =>
            \E m \in DOMAIN outJson.data :
              /\ outJson.data[m].symbol = old.symbol
              /\ outJson.data[m].date = old.date
              /\ outJson.data[m].close = old.close
              /\ outJson.data[m].volume = old.volume

Valid(n) == TryCandidate(reqs[n].cand, reqs[n].resp).ok
Returned == pc = "store"
InCall == pc \in {"fetch", "store", "except"}

\* C3: fetch_stooq requests the candidates strictly in order and each at most
\* once, requests nothing after a candidate gave a valid frame, and returns
\* the frame of the second candidate when the first was malformed and the
\* second valid.
C3_FallbackOrder ==
  /\ \A n \in DOMAIN reqs : reqs[n].cand = n
  /\ \A n \in DOMAIN reqs : n < Len(reqs) => ~Valid(n)
  /\ Returned =>
       /\ reqs # << >>
       /\ Valid(Len(reqs))
       /\ df = [bound |-> TRUE, sym |-> tickers[i],
                rows |-> TryCandidate(Len(reqs), reqs[Len(reqs)].resp).rows]
  /\ (InCall /\ Len(reqs) = 2 /\ ~Valid(1) /\ Valid(2)) => Returned

C3_Witness ==
  /\ pc = "store"
  /\ Len(reqs) = 2
  /\ reqs[1].resp.kind = "csv"
  /\ reqs[1].resp.body.columns = hdrNoVolume
  /\ reqs[2].resp.kind = "csv"
  /\ df.bound
  /\ df.rows = ParseDates(reqs[2].resp.body.rows)

\* C4: a candidate whose request failed with a transient error is requested
\* again before fetch_stooq goes on to the next candidate or gives up.
C4_TransientRetried ==
  \A n \in DOMAIN reqs :
    ( /\ reqs[n].resp.kind = "timeout"
      /\ Attempts(SubSeq(reqs, 1, n), reqs[n].cand) = 1
      /\ (n < Len(reqs) \/ pc = "except") )
    => (n < Len(reqs) /\ reqs[n + 1].cand = reqs[n].cand)

\* C5: a run in which no symbol could be fetched ends with a failure status
\* and leaves the snapshot file as the previous run left it.
C5_SystemicFailure ==
  (UTFinished /\ utTickers # << >> /\ out = << >>) =>
    (utExit = "exit 1" /\ outJson = prevOut)

BadSyms ==
  IF IsComplete(badTickers)
  THEN [n \in 1..Len(badTickers.data) |-> badTickers.data[n].sym]
  ELSE << >>
FailedSoFar ==
  SelectSeq(SubSeq(tickers, 1, i - 1), LAMBDA s : s \notin Range(processed))

C7_SymbolSorted ==
  IsComplete(outJson) =>
    \A a, b \in DOMAIN outJson.data :
      a < b => outJson.data[a].symbol < outJson.data[b].symbol

\* C8: when the process dies, each aggregate output file is a complete
\* version, never a truncated one.
C8_AtomicPersistence ==
  exitCode = "killed" =>
    /\ latestCsv.file # "truncated"
    /\ yesterdayJson.file # "truncated"
    /\ tickersTxt.file # "truncated"

\* C9: last_trading_day(now) is midnight of the latest day strictly before
\* now's date that is a Monday to Friday: never today, never a Saturday or
\* Sunday, and one to three days back.
C9_WeekendSkip ==
  ltdPc = "returned" =>
    /\ ltdResult.secs = 0
    /\ ltdResult.day < now.day
    /\ weekday(ltdResult.day) \in 0..4
    /\ \A d \in (ltdResult.day + 1)..(now.day - 1) : weekday(d) \in {5, 6}
    /\ now.day - ltdResult.day \in 1..3

C9_Witness ==
  /\ ltdPc = "returned"
  /\ weekday(now.day) = 0
  /\ now.secs # 0
  /\ now.day - ltdResult.day = 3

SixFields == {cDate, cOpen, cHigh, cLow, cClose, cVolume}
Synonyms(field) == {mapping[n][1] : n \in {m \in DOMAIN mapping : mapping[m][2] = field}}
HasField(field) ==
  \E n \in DOMAIN payload.columns : Lowered(payload.columns[n]) \in Synonyms(field)

SymSet(file) == IF IsComplete(file) THEN Range(file.data) ELSE {}
NotLoggedBad == SelectSeq(tickers, LAMBDA s : s \notin Range(BadSyms))

====
